---- MODULE Spec2Model ----
(***************************************************************************)
(* Model of the deco-sites/bundler build service: the path normaliser,     *)
(* the virtual file store, the esbuild resolve/load hooks, the build       *)
(* driver and the HTTP handler.                                            *)
(*                                                                         *)
(* A string is a sequence of tokens: the separator "/" and path segments   *)
(* (".", "..", or a name).  "./d/x.ts" is <<".", "/", "d", "/", "x.ts">>.  *)
(***************************************************************************)
EXTENDS Integers, Sequences, FiniteSets, TLC

VARIABLES hpc, cwd, files, virtualFiles, args, canonical, lookupKey, vres, sres, cres, lres

VARIABLES server, pc, options, buildStore, entryRes, imports, lastCall, engineOut, result, response

hvars == <<hpc, files, virtualFiles, args, canonical, lookupKey, vres, sres, cres, lres>>

pvars == <<server, pc, options, buildStore, entryRes, imports, lastCall, engineOut, result, response>>

vars == <<cwd, hvars, pvars>>

(***************************************************************************)
(* Bounds                                                                  *)
(***************************************************************************)
MaxFiles == 2

NumRequests == 2

MaxImports == 1

MaxDiags == 2

(***************************************************************************)
(* Strings                                                                 *)
(***************************************************************************)
EmptyStr == << >>

SEP == "/"

IsSeg(t) == t # SEP

\* s.split("/") without the empty pieces
Split(s) == SelectSeq(s, IsSeg)

RECURSIVE Join(_)
\* segs.join("/")
Join(segs) ==
  IF Len(segs) = 0 THEN EmptyStr
  ELSE IF Len(segs) = 1 THEN <<segs[1]>>
  ELSE <<segs[1], SEP>> \o Join(Tail(segs))

\* an absolute path string from its segments; the root is "/"
AbsStr(segs) == <<SEP>> \o Join(segs)

IsAbsolute(s) == Len(s) > 0 /\ s[1] = SEP

StartsWithDotSlash(s) == Len(s) >= 2 /\ s[1] = "." /\ s[2] = SEP

\* s.replace(ABS_PATH_REGEXP, ""), ABS_PATH_REGEXP = /^\.\/|^\//
ABS_PATH_REGEXP_replace(s) ==
  IF StartsWithDotSlash(s) THEN SubSeq(s, 3, Len(s))
  ELSE IF IsAbsolute(s) THEN Tail(s)
  ELSE s

(***************************************************************************)
(* node:path (posix)                                                       *)
(***************************************************************************)
RECURSIVE NormalizeSegs(_, _)
\* normalizeString: "." is dropped, ".." pops a segment, and is dropped at
\* the root of an absolute path
NormalizeSegs(segs, acc) ==
  IF Len(segs) = 0 THEN acc
  ELSE LET h == Head(segs) IN
    IF h = "." THEN NormalizeSegs(Tail(segs), acc)
    ELSE IF h = ".." THEN
      NormalizeSegs(Tail(segs), IF Len(acc) = 0 THEN acc ELSE SubSeq(acc, 1, Len(acc) - 1))
    ELSE NormalizeSegs(Tail(segs), Append(acc, h))

RECURSIVE ResolveSegs(_, _)
\* path.resolve walks its arguments from the right until one is absolute;
\* the working directory is used when none is
ResolveSegs(base, paths) ==
  IF Len(paths) = 0 THEN base
  ELSE LET p == paths[Len(paths)]
           front == SubSeq(paths, 1, Len(paths) - 1) IN
    IF IsAbsolute(p) THEN Split(p)
    ELSE ResolveSegs(base, front) \o Split(p)

\* path.resolve(...paths) with the process working directory wd (segments)
PathResolve(wd, paths) == AbsStr(NormalizeSegs(ResolveSegs(wd, paths), << >>))

RECURSIVE CommonLen(_, _)
CommonLen(a, b) ==
  IF Len(a) = 0 \/ Len(b) = 0 \/ Head(a) # Head(b) THEN 0
  ELSE 1 + CommonLen(Tail(a), Tail(b))

\* path.relative(from, to)
PathRelative(wd, from, to) ==
  LET f == Split(PathResolve(wd, <<from>>))
      t == Split(PathResolve(wd, <<to>>))
      k == CommonLen(f, t)
      ups == [i \in 1..(Len(f) - k) |-> ".."]
  IN Join(ups \o SubSeq(t, k + 1, Len(t)))

\* path.dirname of an absolute path
PathDirname(s) ==
  LET segs == Split(s) IN
    IF Len(segs) = 0 THEN <<SEP>> ELSE AbsStr(SubSeq(segs, 1, Len(segs) - 1))

DotSlash == <<".", SEP>>

(***************************************************************************)
(* Path Normalizer                                                         *)
(***************************************************************************)
\* the root branch prefixing its input instead of resolving it
resolveImportPath_PrefixOnly(wd, importPath, importerPath) ==
  IF importerPath = EmptyStr THEN DotSlash \o importPath
  ELSE
    LET importerAbs == PathResolve(wd, <<importerPath>>)
        resolvedAbs == PathResolve(wd, <<PathDirname(importerAbs), importPath>>)
        relativeToProjectRoot == PathRelative(wd, DotSlash, resolvedAbs)
    IN DotSlash \o relativeToProjectRoot

\* resolveImportPath(importPath, importerPath), run with working directory wd
resolveImportPath(wd, importPath, importerPath) ==
  IF importerPath = EmptyStr THEN
    LET resolvedAbs == PathResolve(wd, <<DotSlash, importPath>>)
        relativeToProjectRoot == PathRelative(wd, DotSlash, resolvedAbs)
    IN DotSlash \o relativeToProjectRoot
  ELSE
    LET importerAbs == PathResolve(wd, <<importerPath>>)
        resolvedAbs == PathResolve(wd, <<PathDirname(importerAbs), importPath>>)
        relativeToProjectRoot == PathRelative(wd, DotSlash, resolvedAbs)
    IN DotSlash \o relativeToProjectRoot

(***************************************************************************)
(* Virtual File Store                                                      *)
(***************************************************************************)
UndefinedValue == "<undefined>"

InheritedValue == "<function>"

\* names every plain object inherits from Object.prototype
ObjectPrototypeKeys == {<<"constructor">>}

EmptyStore == [k \in {} |-> ""]

RECURSIVE BuildVirtualFiles_FirstWins(_, _)
\* a key already in the store keeps its first content
BuildVirtualFiles_FirstWins(fs, acc) ==
  IF Len(fs) = 0 THEN acc
  ELSE LET k == ABS_PATH_REGEXP_replace(Head(fs).path)
           c == Head(fs).content
       IN BuildVirtualFiles_FirstWins(Tail(fs),
            [x \in (DOMAIN acc) \cup {k} |-> IF x \in DOMAIN acc THEN acc[x] ELSE c])

RECURSIVE BuildVirtualFiles(_, _)
\* for (const [path, content] of Object.entries(files))
\*   virtualFiles[path.replace(ABS_PATH_REGEXP, "")] = content
BuildVirtualFiles(fs, acc) ==
  IF Len(fs) = 0 THEN acc
  ELSE LET k == ABS_PATH_REGEXP_replace(Head(fs).path)
           c == Head(fs).content
       IN BuildVirtualFiles(Tail(fs),
            [x \in (DOMAIN acc) \cup {k} |-> IF x = k THEN c ELSE acc[x]])

\* the property read virtualFiles[k] on a plain object
Lookup(store, k) ==
  IF k \in DOMAIN store THEN store[k]
  ELSE IF k \in ObjectPrototypeKeys THEN InheritedValue
  ELSE UndefinedValue

\* JavaScript truthiness of a looked-up value
Truthy(v) == v # UndefinedValue /\ v # ""

(***************************************************************************)
(* Resolve / load hooks                                                    *)
(***************************************************************************)
NoOpinion == [path |-> EmptyStr, namespace |-> "<undefined>"]

\* builtinModules of node:module (the names the model uses)
builtinModules == {"fs", "path"}

NodePrefixed(m) == IF m = "fs" THEN "node:fs" ELSE "node:path"

\* NODEJS_MODULES_RE.test(s), NODEJS_MODULES_RE = /^(node:)?(fs|path|...)$/
NODEJS_MODULES_RE(s) ==
  \E m \in builtinModules : s = <<m>> \/ s = <<NodePrefixed(m)>>

REQUIRED_NODE_BUILT_IN_NAMESPACE == "node-built-in-modules"

\* onResolve of the "virtual-filesystem" plugin
VirtualOnResolve(wd, store, a) ==
  LET path == resolveImportPath(wd, a.path, a.importer)
      noStartingDotSlash == ABS_PATH_REGEXP_replace(path)
  IN IF Truthy(Lookup(store, noStartingDotSlash))
     THEN [path |-> noStartingDotSlash, namespace |-> "virtual"]
     ELSE NoOpinion

\* onResolve of the "handle-require-calls-to-nodejs-builtins" plugin
ShimOnResolve(a) ==
  IF NODEJS_MODULES_RE(a.path) /\ a.kind = "require-call"
  THEN [path |-> a.path, namespace |-> REQUIRED_NODE_BUILT_IN_NAMESPACE]
  ELSE NoOpinion

\* the fallback: denoPlugins with external: [...builtinModules]; found says
\* whether the specifier resolves outside the virtual mapping (disk, registry)
DefaultResolve(a, found) ==
  IF NODEJS_MODULES_RE(a.path) THEN [path |-> a.path, namespace |-> "external"]
  ELSE IF found THEN [path |-> a.path, namespace |-> "file"]
  ELSE [path |-> a.path, namespace |-> "<unresolved>"]

\* the plugins array, in registration order
Plugins == <<"virtual-filesystem", "handle-require-calls-to-nodejs-builtins", "deno">>

HookResult(name, wd, store, a, found) ==
  IF name = "virtual-filesystem" THEN VirtualOnResolve(wd, store, a)
  ELSE IF name = "handle-require-calls-to-nodejs-builtins" THEN ShimOnResolve(a)
  ELSE DefaultResolve(a, found)

RECURSIVE FirstOpinion(_, _, _, _, _)
\* the engine tries the onResolve callbacks in registration order and takes
\* the first result that is not undefined
FirstOpinion(plugins, wd, store, a, found) ==
  IF Len(plugins) = 0 THEN NoOpinion
  ELSE LET r == HookResult(Head(plugins), wd, store, a, found) IN
    IF r # NoOpinion THEN r ELSE FirstOpinion(Tail(plugins), wd, store, a, found)

ResolveChain(wd, store, a, found) == FirstOpinion(Plugins, wd, store, a, found)

\* names whose text ends in ".ts"
TsNames == {"a.ts", "x.ts", "shared.ts", "index.ts"}

EndsWithTs(s) == Len(s) > 0 /\ s[Len(s)] \in TsNames

NoLoad == [contents |-> UndefinedValue, loader |-> "<none>"]

\* onLoad of the "virtual-filesystem" plugin (namespace "virtual")
VirtualOnLoad(store, path) ==
  [contents |-> Lookup(store, path), loader |-> IF EndsWithTs(path) THEN "ts" ELSE "js"]

(***************************************************************************)
(* Inputs of the hook-level specification                                  *)
(***************************************************************************)
\* working directories of the server process, as segments ("/" and "/app")
CwdSet == {<< >>, <<"app">>}

RootRels == {<<"shared.ts">>, <<"d", SEP, "x.ts">>}

\* the literal forms "r", "./r" and "/r" of a root-relative path r
Forms(r) == {r, DotSlash \o r, <<SEP>> \o r}

\* keys of request files: the three forms of one path, a file in a
\* directory, and a file named like a platform built-in
FileKeys == Forms(<<"shared.ts">>) \cup {<<"d", SEP, "x.ts">>, <<"fs">>}

Contents == {"", "A"}

FileEntries == [path : FileKeys, content : Contents]

\* Object.entries(files): at most MaxFiles entries, no key twice
FileLists ==
  {fl \in UNION {[1..n -> FileEntries] : n \in 0..MaxFiles} :
     \A i, j \in DOMAIN fl : i # j => fl[i].path # fl[j].path}

Specifiers ==
  UNION {Forms(r) : r \in RootRels} \cup {<<"fs">>} \cup {<<"..", SEP, "shared.ts">>, <<"node:fs">>, <<"constructor">>, <<"pkg">>, <<"x.ts">>}

ImportKinds == {"import-statement", "require-call"}

NoArgs == [path |-> EmptyStr, importer |-> EmptyStr, kind |-> "<none>"]

(***************************************************************************)
(* Build driver and result encoder                                         *)
(***************************************************************************)
\* the constant tag of a failure message
TAG == "Build failed: "

NL == "\n"

RECURSIVE JoinNL(_)
\* texts.join("\n"), every text a sequence of tokens
JoinNL(texts) ==
  IF Len(texts) = 0 THEN EmptyStr
  ELSE IF Len(texts) = 1 THEN texts[1]
  ELSE texts[1] \o <<NL>> \o JoinNL(Tail(texts))

\* only the first diagnostic's text
ErrorTexts_FirstOnly(errors) == IF Len(errors) = 0 THEN EmptyStr ELSE errors[1]

\* result.errors.map((e) => e.text).join("\n")
ErrorTexts(errors) == JoinNL(errors)

\* new Error(`Build failed: ${result.errors.map((e) => e.text).join("\n")}`)
AggregatedMessage(errors) == <<TAG>> \o ErrorTexts(errors)

\* the catch block: new Error(`Build failed: ${err.message}`)
CaughtMessage(message) == <<TAG>> \o message

\* btoa(text)
Btoa(text) == <<"btoa(", text, ")">>

\* the message of the error the engine rejects with
EngineRejection(errors) == <<"engine: ">> \o JoinNL(errors)

NoEntrypoint == <<"<undefined>">>

\* entrypoint ?? "index.ts"
EntryPoint(opts) ==
  IF opts.entrypoint = NoEntrypoint THEN <<"index.ts">> ELSE opts.entrypoint

Pending == [kind |-> "pending", value |-> EmptyStr]

\* what build settles with once the engine's promise has settled: out.kind
\* is "result" (errors and the first output file's text) or "rejected"
BuildOutcome(out) ==
  IF out.kind = "rejected"
  THEN [kind |-> "error", value |-> CaughtMessage(out.message)]
  ELSE IF Len(out.errors) > 0
  THEN [kind |-> "error", value |-> CaughtMessage(AggregatedMessage(out.errors))]
  ELSE [kind |-> "ok", value |-> Btoa(out.text)]

\* one store for the module, replaced by every call of build
StoreOfBuild_Shared(st, b, fl) == [x \in DOMAIN st |-> BuildVirtualFiles(fl, EmptyStore)]

\* const virtualFiles = {} inside build: one store per call of build
StoreOfBuild(st, b, fl) == [st EXCEPT ![b] = BuildVirtualFiles(fl, EmptyStore)]

(***************************************************************************)
(* HTTP handler                                                            *)
(***************************************************************************)
NoResponse == [status |-> 0, kind |-> "<none>", value |-> EmptyStr]

\* c.json(value) of a settled BuildResult
JsonOfResult(r) == [status |-> 200, kind |-> "json-base64", value |-> r.value]

\* c.json(promise): JSON.stringify of a promise is "{}"
JsonOfPromise == [status |-> 200, kind |-> "json-empty-object", value |-> EmptyStr]

\* the handler has no catch: an error thrown by build reaches the framework,
\* whose default answer is a plain-text 500
FrameworkError == [status |-> 500, kind |-> "text", value |-> <<"Internal Server Error">>]

(***************************************************************************)
(* Inputs of the pipeline specification                                    *)
(***************************************************************************)
Requests == 1..NumRequests

\* the two app.post handlers of the sources
Servers == {"main.ts", "unnamed/part_000"}

PFileKeys == {<<"index.ts">>, <<".", SEP, "shared.ts">>}

PFileEntries == [path : PFileKeys, content : {"A"}]

PFileLists ==
  {fl \in UNION {[1..n -> PFileEntries] : n \in 0..MaxFiles} :
     \A i, j \in DOMAIN fl : i # j => fl[i].path # fl[j].path}

PEntrypoints == {NoEntrypoint, <<"shared.ts">>}

BuildOptions == [files : PFileLists, entrypoint : PEntrypoints]

NoOptions == [files |-> << >>, entrypoint |-> NoEntrypoint]

PSpecifiers == {<<".", SEP, "shared.ts">>, <<"fs">>, <<"pkg">>}

\* the text of the i-th diagnostic of an engine result
DiagText(i) == <<"error ", ToString(i)>>

\* the errors arrays of an engine result: 0..MaxDiags diagnostics
DiagLists == {[i \in 1..n |-> DiagText(i)] : n \in 0..MaxDiags}

Bundles == {"bundleX", "bundleY"}

NoCall == [args |-> NoArgs, result |-> NoOpinion]

\* inputs of the concurrent specification: requests that carry the default
\* entry file, one import, at most one diagnostic
COptions ==
  {o \in BuildOptions :
     o.entrypoint = NoEntrypoint /\ \E i \in DOMAIN o.files : o.files[i].path = <<"index.ts">>}

CSpecifiers == {<<".", SEP, "shared.ts">>}

CDiagLists == {l \in DiagLists : Len(l) <= 1}

NoOut == [kind |-> "<none>", errors |-> << >>, text |-> "", message |-> EmptyStr]

(***************************************************************************)
(* Initial states                                                          *)
(***************************************************************************)
HookInit ==
  /\ hpc = "request"
  /\ files = << >>
  /\ virtualFiles = EmptyStore
  /\ args = NoArgs
  /\ canonical = EmptyStr
  /\ lookupKey = EmptyStr
  /\ vres = NoOpinion
  /\ sres = NoOpinion
  /\ cres = NoOpinion
  /\ lres = NoLoad

PipeInit ==
  /\ pc = [b \in Requests |-> "idle"]
  /\ options = [b \in Requests |-> NoOptions]
  /\ buildStore = [b \in Requests |-> EmptyStore]
  /\ entryRes = [b \in Requests |-> NoOpinion]
  /\ imports = [b \in Requests |-> 0]
  /\ lastCall = [b \in Requests |-> NoCall]
  /\ engineOut = [b \in Requests |-> NoOut]
  /\ result = [b \in Requests |-> Pending]
  /\ response = [b \in Requests |-> NoResponse]

(***************************************************************************)
(* Hook-level specification: one build, the engine calling the hooks       *)
(***************************************************************************)
HInit ==
  /\ cwd \in CwdSet
  /\ server = "unnamed/part_000"
  /\ HookInit
  /\ PipeInit

\* build(options) up to the call of the engine: the store is constructed
HBuild(fl) ==
  /\ hpc = "request"
  /\ hpc' = "engine"
  /\ files' = fl
  /\ virtualFiles' = BuildVirtualFiles(fl, EmptyStore)
  /\ UNCHANGED <<cwd, args, canonical, lookupKey, vres, sres, cres, lres, pvars>>

\* the engine resolves one specifier: every onResolve callback is evaluated
\* on it and the chain's answer is the first opinion
HResolveWith(a, fnd) ==
  /\ args' = a
  /\ canonical' = resolveImportPath(cwd, a.path, a.importer)
  /\ lookupKey' = ABS_PATH_REGEXP_replace(resolveImportPath(cwd, a.path, a.importer))
  /\ vres' = VirtualOnResolve(cwd, virtualFiles, a)
  /\ sres' = ShimOnResolve(a)
  /\ cres' = ResolveChain(cwd, virtualFiles, a, fnd)
  /\ lres' = NoLoad
  /\ UNCHANGED <<hpc, cwd, files, virtualFiles, pvars>>

\* the entry point: the engine's first resolve call, with an empty importer
\* and kind "entry-point"
HResolveEntry ==
  /\ hpc = "engine"
  /\ args = NoArgs
  /\ \E p \in Specifiers, fnd \in BOOLEAN :
       HResolveWith([path |-> p, importer |-> EmptyStr, kind |-> "entry-point"], fnd)

\* an import found in the module just loaded from the store: the importer
\* is that module's path (contents that are no source text fail the load)
HResolveImport ==
  /\ lres.contents \in Contents
  /\ \E p \in Specifiers, k \in ImportKinds, fnd \in BOOLEAN :
       HResolveWith([path |-> p, importer |-> cres.path, kind |-> k], fnd)

\* the engine loads the module the chain placed in the "virtual" namespace
HLoad ==
  /\ cres.namespace = "virtual"
  /\ lres = NoLoad
  /\ lres' = VirtualOnLoad(virtualFiles, cres.path)
  /\ UNCHANGED <<hpc, cwd, files, virtualFiles, args, canonical, lookupKey, vres, sres, cres, pvars>>

HNext ==
  \/ \E fl \in FileLists : HBuild(fl)
  \/ HResolveEntry
  \/ HResolveImport
  \/ HLoad

SpecHooks == HInit /\ [][HNext]_vars

(***************************************************************************)
(* Pipeline: POST requests, each running a build                           *)
(***************************************************************************)
Init ==
  /\ cwd \in CwdSet
  /\ server \in Servers
  /\ HookInit
  /\ PipeInit

\* app.post("/*", ...) up to its first suspension: the body is parsed and
\* build runs until it awaits the engine.  The handler of main.ts passes
\* the pending promise to c.json and responds at once; the handler of
\* unnamed/part_000 awaits the build.
Post(b, opts) ==
  /\ pc[b] = "idle"
  /\ options' = [options EXCEPT ![b] = opts]
  /\ buildStore' = StoreOfBuild(buildStore, b, opts.files)
  /\ pc' = [pc EXCEPT ![b] = "entry"]
  /\ response' = [response EXCEPT ![b] =
       IF server = "main.ts" THEN JsonOfPromise ELSE NoResponse]
  /\ UNCHANGED <<cwd, hvars, server, entryRes, imports, lastCall, engineOut, result>>

\* the engine resolves the entry point of build b through the hooks; fnd is
\* the default resolver's answer for it
EngineResolveEntry(b, fnd) ==
  /\ pc[b] = "entry"
  /\ LET a == [path |-> EntryPoint(options[b]), importer |-> EmptyStr, kind |-> "entry-point"]
     IN /\ entryRes' = [entryRes EXCEPT ![b] = ResolveChain(cwd, buildStore[b], a, fnd)]
        /\ lastCall' = [lastCall EXCEPT ![b] =
             [args |-> a, result |-> VirtualOnResolve(cwd, buildStore[b], a)]]
  /\ pc' = [pc EXCEPT ![b] = "graph"]
  /\ UNCHANGED <<cwd, hvars, server, options, buildStore, imports, engineOut, result, response>>

\* the engine resolves an import of the entry module, loaded from the store
EngineResolveImport(b, p, k) ==
  /\ pc[b] = "graph"
  /\ entryRes[b].namespace = "virtual"
  /\ VirtualOnLoad(buildStore[b], entryRes[b].path).contents \in Contents
  /\ imports[b] < MaxImports
  /\ LET a == [path |-> p, importer |-> entryRes[b].path, kind |-> k]
     IN lastCall' = [lastCall EXCEPT ![b] =
          [args |-> a, result |-> VirtualOnResolve(cwd, buildStore[b], a)]]
  /\ imports' = [imports EXCEPT ![b] = @ + 1]
  /\ UNCHANGED <<cwd, hvars, server, pc, options, buildStore, entryRes, engineOut, result, response>>

\* the engine's promise settles and build continues after its await: the
\* engine either rejects, or returns a result with its diagnostics and, when
\* there are none, the bundle; an unresolved entry point leaves a diagnostic
BuildSettle(b, errors, rejects, text) ==
  /\ pc[b] = "graph"
  /\ entryRes[b].namespace = "<unresolved>" => Len(errors) > 0
  /\ rejects => Len(errors) > 0
  /\ LET out == [kind |-> IF rejects THEN "rejected" ELSE "result",
                 errors |-> errors,
                 text |-> IF Len(errors) = 0 THEN text ELSE "",
                 message |-> IF rejects THEN EngineRejection(errors) ELSE EmptyStr]
     IN /\ engineOut' = [engineOut EXCEPT ![b] = out]
        /\ result' = [result EXCEPT ![b] = BuildOutcome(out)]
  /\ pc' = [pc EXCEPT ![b] = IF server = "main.ts" THEN "done" ELSE "settled"]
  /\ UNCHANGED <<cwd, hvars, server, options, buildStore, entryRes, imports, lastCall, response>>

\* the handler of unnamed/part_000 continues after `await build(...)`
Respond(b) ==
  /\ pc[b] = "settled"
  /\ response' = [response EXCEPT ![b] =
       IF result[b].kind = "ok" THEN JsonOfResult(result[b]) ELSE FrameworkError]
  /\ pc' = [pc EXCEPT ![b] = "done"]
  /\ UNCHANGED <<cwd, hvars, server, options, buildStore, entryRes, imports, lastCall, engineOut, result>>

(***************************************************************************)
(* Pipeline specification: one request, every input of the build          *)
(***************************************************************************)
NoneInFlight == \A c \in Requests : pc[c] = "idle"

Next ==
  \/ \E b \in Requests, opts \in BuildOptions : NoneInFlight /\ Post(b, opts)
  \/ \E b \in Requests, fnd \in BOOLEAN : EngineResolveEntry(b, fnd)
  \/ \E b \in Requests, p \in PSpecifiers, k \in ImportKinds : EngineResolveImport(b, p, k)
  \/ \E b \in Requests, errors \in DiagLists, rejects \in BOOLEAN, text \in Bundles :
       BuildSettle(b, errors, rejects, text)
  \/ \E b \in Requests : Respond(b)

Spec == Init /\ [][Next]_vars

(***************************************************************************)
(* Concurrent specification: the requests in flight together               *)
(***************************************************************************)
CNext ==
  \/ \E b \in Requests, opts \in COptions : Post(b, opts)
  \/ \E b \in Requests : EngineResolveEntry(b, FALSE)
  \/ \E b \in Requests, p \in CSpecifiers : EngineResolveImport(b, p, "import-statement")
  \/ \E b \in Requests, errors \in CDiagLists, text \in Bundles :
       BuildSettle(b, errors, FALSE, text)
  \/ \E b \in Requests : Respond(b)

SpecConcurrent == Init /\ [][CNext]_vars

(***************************************************************************)
(* Claims about the resolve hooks (checked under SpecHooks)                *)
(***************************************************************************)
Resolved == args # NoArgs

ShimOpinion(a) == [path |-> a.path, namespace |-> REQUIRED_NODE_BUILT_IN_NAMESPACE]

\* C1: a require-call of a platform built-in name (bare or node:-prefixed)
\* is answered by the built-in-shim hook, whatever keys the store holds.
C1_RequireBuiltinGoesToShim ==
  (Resolved /\ args.kind = "require-call" /\ NODEJS_MODULES_RE(args.path))
    => cres = ShimOpinion(args)

\* C2: the virtual resolve hook answers {path: key, namespace: "virtual"}
\* exactly when the stripped canonical path is a key of the store, whatever
\* the stored content, and gives no opinion otherwise.
C2_VirtualHitIffStoreKey ==
  Resolved =>
    IF lookupKey \in DOMAIN virtualFiles
    THEN vres = [path |-> lookupKey, namespace |-> "virtual"]
    ELSE vres = NoOpinion

\* C3: the forms "./r", "/r" and "r" give one store key as keys of request
\* files, and as entry point or root-level specifier one "./"-prefixed
\* canonical path whose lookup key is that store key.
C3_ThreeFormsCanonicaliseAlike ==
  \A r \in RootRels :
    /\ \A i, j \in DOMAIN files :
         (files[i].path \in Forms(r) /\ files[j].path \in Forms(r))
           => ABS_PATH_REGEXP_replace(files[i].path) = ABS_PATH_REGEXP_replace(files[j].path)
    /\ (Resolved /\ args.importer = EmptyStr /\ args.path \in Forms(r))
         => \A f \in Forms(r) :
              /\ lookupKey = ABS_PATH_REGEXP_replace(f)
              /\ canonical = DotSlash \o ABS_PATH_REGEXP_replace(f)

\* the directory of a store key, as segments below the project root
DirSegs(importer) ==
  LET segs == Split(importer) IN
    IF Len(segs) = 0 THEN << >> ELSE SubSeq(segs, 1, Len(segs) - 1)

RECURSIVE LeadingUps(_)
LeadingUps(segs) ==
  IF Len(segs) = 0 \/ Head(segs) # ".." THEN 0 ELSE 1 + LeadingUps(Tail(segs))

IsRelativeSpecifier(p) == Len(p) > 0 /\ p[1] \in {".", ".."}

\* C4: a specifier is resolved against the directory of its importer (the
\* project root when the importer is empty) and rendered root-relative with
\* a "./" prefix; so a relative import whose target is a store key is
\* answered by the virtual hook and never reaches the default resolver.
C4_ResolvedAgainstImporterDirectory ==
  Resolved =>
    /\ (~IsAbsolute(args.path) /\ LeadingUps(Split(args.path)) <= Len(DirSegs(args.importer)))
         => canonical =
              DotSlash \o Join(NormalizeSegs(DirSegs(args.importer) \o Split(args.path), << >>))
    /\ (args.importer # EmptyStr /\ IsRelativeSpecifier(args.path)
          /\ lookupKey \in DOMAIN virtualFiles)
         => cres = [path |-> lookupKey, namespace |-> "virtual"]

\* C10: the shim hook redirects into the built-in namespace exactly when
\* the specifier is a built-in name and the kind is require-call; a static
\* import of a built-in is left as an external reference.
C10_ShimOnlyForRequiredBuiltins ==
  Resolved =>
    /\ (sres # NoOpinion) <=> (NODEJS_MODULES_RE(args.path) /\ args.kind = "require-call")
    /\ (sres # NoOpinion) => sres = ShimOpinion(args)
    /\ (NODEJS_MODULES_RE(args.path) /\ args.kind = "import-statement")
         => cres = [path |-> args.path, namespace |-> "external"]

(***************************************************************************)
(* Claims about the build driver and the HTTP handler (checked under Spec) *)
(***************************************************************************)
\* no key of the request's files canonicalises to the canonical entry point
EntryMissing(b) ==
  /\ pc[b] # "idle"
  /\ ~\E i \in DOMAIN options[b].files :
        ABS_PATH_REGEXP_replace(options[b].files[i].path)
          = ABS_PATH_REGEXP_replace(resolveImportPath(cwd, EntryPoint(options[b]), EmptyStr))

\* C5: when no key of the request's files canonicalises to the entry point
\* (the request's, or "index.ts"), build never returns a BuildResult,
\* whatever the default resolver finds outside the virtual mapping.
C5_MissingEntrypointFailsBuild ==
  \A b \in Requests : EntryMissing(b) => result[b].kind # "ok"

RECURSIVE OffsetOf(_, _)
\* where the i-th text starts in the newline-joined texts
OffsetOf(texts, i) ==
  IF i = 1 THEN 0 ELSE OffsetOf(texts, i - 1) + Len(texts[i - 1]) + 1

\* message holds every text, in order, with one newline between neighbours
HoldsAllInOrder(message, texts) ==
  \E start \in 0..Len(message) :
    \A i \in DOMAIN texts :
      LET from == start + OffsetOf(texts, i) IN
        /\ from + Len(texts[i]) <= Len(message)
        /\ SubSeq(message, from + 1, from + Len(texts[i])) = texts[i]
        /\ i > 1 => message[from] = NL

\* C6: when the engine's result carries diagnostics, build returns no
\* BuildResult and fails once, with a message that holds the text of every
\* diagnostic, in order, joined by newlines.
C6_AllDiagnosticsInFailure ==
  \A b \in Requests :
    (engineOut[b].kind = "result" /\ Len(engineOut[b].errors) > 0)
      => /\ result[b].kind = "error"
         /\ HoldsAllInOrder(result[b].value, engineOut[b].errors)

C6_Witness ==
  \E b \in Requests :
    /\ engineOut[b].kind = "result"
    /\ Len(engineOut[b].errors) >= 2
    /\ result[b].kind = "error"

\* C7: a POST whose build succeeds is answered only once that build has
\* completed, with that build's BuildResult {base64} as the JSON body.
C7_SuccessAnsweredWithResult ==
  \A b \in Requests :
    /\ (response[b] # NoResponse /\ result[b].kind = "ok")
         => response[b] = [status |-> 200, kind |-> "json-base64",
                           value |-> Btoa(engineOut[b].text)]
    /\ (pc[b] = "done" /\ result[b].kind = "ok") => response[b] # NoResponse

\* C8: a POST whose build fails is answered with a non-2xx status and the
\* JSON body {error: message} carrying the failure message.
C8_FailureAnsweredWithError ==
  \A b \in Requests :
    /\ (response[b] # NoResponse /\ result[b].kind = "error")
         => /\ response[b].status \notin 200..299
            /\ response[b].kind = "json-error"
            /\ response[b].value = result[b].value
    /\ (pc[b] = "done" /\ result[b].kind = "error") => response[b] # NoResponse

(***************************************************************************)
(* Claims about concurrent builds (checked under SpecConcurrent)           *)
(***************************************************************************)
\* the entries of fl whose key strips to k
EntriesFor(fl, k) == {i \in DOMAIN fl : ABS_PATH_REGEXP_replace(fl[i].path) = k}

LastOf(S) == CHOOSE i \in S : \A j \in S : j <= i

\* the store of a request's files, key by key
OwnStore(fl) ==
  [k \in {ABS_PATH_REGEXP_replace(fl[i].path) : i \in DOMAIN fl}
     |-> fl[LastOf(EntriesFor(fl, k))].content]

C11_CanonicalisationIdempotent ==
  Resolved =>
    /\ resolveImportPath(cwd, canonical, EmptyStr) = canonical
    /\ (args.importer = EmptyStr /\ args.path \in {DotSlash \o r : r \in RootRels})
         => canonical = args.path

C11_Witness ==
  /\ Resolved
  /\ args.importer # EmptyStr
  /\ canonical # args.path
  /\ canonical # DotSlash \o args.path

Built == hpc = "engine"

\* two distinct keys of the request's files that strip to one store key
Collide(i, j) ==
  /\ i < j
  /\ files[i].path # files[j].path
  /\ ABS_PATH_REGEXP_replace(files[i].path) = ABS_PATH_REGEXP_replace(files[j].path)

\* C12: when two distinct keys of the request's files strip to the same
\* store key, the store holds that key once, with the content of the later
\* of the two; the entry of every other key is its own content.
C12_LastWriteWins ==
  Built =>
    /\ \A i, j \in DOMAIN files :
         (Collide(i, j) /\ ~\E l \in DOMAIN files : l > j /\ Collide(j, l))
           => /\ ABS_PATH_REGEXP_replace(files[j].path) \in DOMAIN virtualFiles
              /\ virtualFiles[ABS_PATH_REGEXP_replace(files[j].path)] = files[j].content
    /\ \A i \in DOMAIN files :
         (~\E j \in DOMAIN files : Collide(i, j) \/ Collide(j, i))
           => /\ ABS_PATH_REGEXP_replace(files[i].path) \in DOMAIN virtualFiles
              /\ virtualFiles[ABS_PATH_REGEXP_replace(files[i].path)] = files[i].content
    /\ DOMAIN virtualFiles = {ABS_PATH_REGEXP_replace(files[i].path) : i \in DOMAIN files}

C12_Witness ==
  /\ Built
  /\ \E i, j \in DOMAIN files :
       /\ Collide(i, j)
       /\ files[i].content # files[j].content
       /\ virtualFiles[ABS_PATH_REGEXP_replace(files[j].path)] = files[j].content
       /\ Cardinality(DOMAIN virtualFiles) < Len(files)

Loaded == lres # NoLoad

\* C13: for a path the virtual resolve hook placed in the "virtual"
\* namespace, the load hook returns the source text the store holds under
\* that path, with the ts loader exactly when the path ends in ".ts" and the
\* js loader otherwise; it is not called outside the virtual namespace.
C13_LoadReturnsStoredText ==
  Loaded =>
    /\ cres.namespace = "virtual"
    /\ cres.path \in DOMAIN virtualFiles
    /\ lres.contents = virtualFiles[cres.path]
    /\ lres.loader = IF cres.path[Len(cres.path)] \in TsNames THEN "ts" ELSE "js"

\* a specifier that starts with none of "./", "../" and "/"
IsBare(p) ==
  /\ ~IsAbsolute(p)
  /\ ~(Len(p) >= 2 /\ p[1] \in {".", ".."} /\ p[2] = SEP)

\* the path dirname(i)/s below the project root
BesideImporter(i, s) == Join(DirSegs(i) \o Split(s))

\* C14: the virtual resolve hook answers a bare specifier s as it answers
\* "./" + s for the same importer; so a store key equal to dirname(i)/s
\* takes the import of the package name s before the default resolver.
C14_BareSpecifierIsRelative ==
  (Resolved /\ IsBare(args.path)) =>
    /\ vres = VirtualOnResolve(cwd, virtualFiles, [args EXCEPT !.path = DotSlash \o @])
    /\ BesideImporter(args.importer, args.path) \in DOMAIN virtualFiles
         => cres = [path |-> BesideImporter(args.importer, args.path), namespace |-> "virtual"]

====
